---- MODULE Spec2Model ----
(***************************************************************************)
(* Batch execution orchestrator of the angiogenesis GUI.                   *)
(*                                                                         *)
(*   Spec          the batch coordinator of gui/main_window.py: the main   *)
(*                 (GUI) thread with its nested event loops, and the       *)
(*                 supervisors of every batch reduced to their terminal    *)
(*                 signal.                                                 *)
(*   FairSpec      Spec with the fairness of the Qt scheduling: a queued   *)
(*                 signal is delivered, a modal dialog is answered, the    *)
(*                 launch loop goes on. No child is made to exit.          *)
(*   SpecRun       one execution of SimulationWorker.run, statement by     *)
(*                 statement, with the child process and the store.        *)
(*   SpecInterpret the pure function _interpret_exit_code.                 *)
(*   SpecSweep     validation and sweep expansion of run_simulation, on    *)
(*                 the texts typed in the parameter fields.                *)
(*   SpecLaunch    the dict objects of an expansion and of the launch      *)
(*                 loop, by address.                                       *)
(*   SpecThreads   the QThread of each supervisor: started, its run()      *)
(*                 returned, asked to quit, finished.                      *)
(***************************************************************************)
EXTENDS Integers, Sequences, FiniteSets, TLC

\* ------------------------------------------------------------------ bounds
MaxWorkers == 4      \* supervisors created over a whole behaviour
MaxBatches == 2      \* calls of launch_batch_simulation
MaxCombos == 3       \* len(parameter_combinations)
MaxReplicates == 2   \* replicate_spinbox.value()

VARIABLES
    \* ---- MainWindow (gui/main_window.py:519-524) ----
    is_cancelled,            \* self.is_cancelled
    completed_combinations,  \* self.completed_combinations
    total_combinations,      \* self.total_combinations
    n_combinations,          \* len(self.parameter_combinations)
    replicates,              \* self.replicate_spinbox.value()
    simulation_threads,      \* self.simulation_threads: sequence of supervisor ids
    run_button_enabled,      \* self.run_button.isEnabled()
    cancel_button_visible,   \* self.cancel_button.isVisible()
    \* ---- the main thread ----
    stack,                   \* frames of the main thread that wait in an event loop
    launch_loops,            \* per call of launch_batch_simulation: its loop
    n_batch,                 \* calls of launch_batch_simulation so far
    \* ---- supervisors, as the coordinator sees them ----
    worker,                  \* id -> [batch, state, combo, rep, exp_name, cause]
    batch_terminal,          \* every call of finalize_batch, in order
    \* ---- one SimulationWorker (gui/simulation_worker.py) ----
    pc,                      \* the statement of run() to execute next
    sim_time,                \* self.sim_time
    events,                  \* the signals emitted so far, in order
    child,                   \* the child process: "none", "alive", "exited"
    child_code,              \* the exit status of the exited child
    store_step,              \* the highest checkpoint the child has written
    monitoring,              \* self.monitoring
    last_reported_step,      \* last_reported_step of _monitor_progress
    stdout_log,              \* self.stdout_log: "unopened", "open", "closed"
    stderr_log,              \* self.stderr_log
    temp_script,             \* the temporary script: "none", "exists", "removed"
    exit_code,               \* exit_code of run()
    exit_code_msg,           \* exit_code_msg of run()
    final_step,              \* final_step of run()
    metadata,                \* the record in run_metadata.json, if written
    timeout_elapsed,         \* 86400 s have passed since the child was launched
    \* ---- sweep expansion (gui/main_window.py:1491-1659, 1710-1772) ----
    schema,                  \* type(self.schema['inputs'][p]['_default'])
    current_params,          \* self.current_params
    all_issues,              \* all_issues of run_simulation
    sweep_parameters,        \* self.sweep_parameters
    base_parameters,         \* self.base_parameters
    parameter_combinations,  \* self.parameter_combinations
    previous_combinations,   \* the list the expansion before the last returned
    expansions,              \* expansions carried out
    sweep_pc,                \* the statement of run_simulation to execute next
    \* ---- the dict objects of expansion and launch ----
    heap,                    \* address -> the dict object at that address
    base_ref,                \* the address self.base_parameters is bound to
    combination_refs,        \* self.parameter_combinations, as addresses
    worker_parameters,       \* SimulationWorker.parameters of each supervisor
    launch_replicates,       \* `replicates` of launch_batch_simulation
    launch_counter,          \* iterations of the launch loop carried out
    \* ---- the QThread of each supervisor (gui/main_window.py:1862-1877) ----
    threads                  \* id -> [phase, emitted, quit_queued, requests]

varsBatch == <<is_cancelled, completed_combinations, total_combinations,
               n_combinations, replicates, simulation_threads,
               run_button_enabled, cancel_button_visible, stack,
               launch_loops, n_batch, worker, batch_terminal>>

varsRun == <<pc, sim_time, events, child, child_code, store_step, monitoring,
             last_reported_step, stdout_log, stderr_log, temp_script,
             exit_code, exit_code_msg, final_step, metadata, timeout_elapsed>>

varsObjects == <<heap, base_ref, combination_refs>>

varsLaunch == <<worker_parameters, launch_replicates, launch_counter>>

varsSweep == <<schema, current_params, all_issues, sweep_parameters,
               base_parameters, parameter_combinations, previous_combinations,
               expansions, sweep_pc, varsObjects, varsLaunch, threads>>

vars == <<varsBatch, varsRun, varsSweep>>

Workers == 1..MaxWorkers

\* states of a supervisor: not created; run() executing; terminal signal
\* emitted and queued to the main thread; the slot has run.
NoWorker == [batch |-> 0, state |-> "none", combo |-> 0, rep |-> 0,
             exp_name |-> "", cause |-> ""]

Top == IF stack = <<>> THEN "idle" ELSE stack[Len(stack)]
Pop == SubSeq(stack, 1, Len(stack) - 1)
Created == Cardinality({w \in Workers : worker[w].state # "none"})

\* The frames of launch_batch_simulation. Call b has enumerated a list of n
\* combinations with its local `replicates`; run_counter supervisors are
\* started; returned when its loop is over. A call made from the processEvents
\* of another returns before that one goes on, so the loop that runs is the
\* latest one that has not returned.
ActiveLoops == {b \in DOMAIN launch_loops : ~launch_loops[b].returned}
CurrentLoop == CHOOSE b \in ActiveLoops : \A c \in ActiveLoops : c <= b
ToLaunch(b) ==
    launch_loops[b].n * launch_loops[b].replicates - launch_loops[b].run_counter
RECURSIVE Pending(_)
Pending(bs) ==
    IF bs = {} THEN 0
    ELSE LET b == CHOOSE x \in bs : TRUE IN ToLaunch(b) + Pending(bs \ {b})

\* base_exp_name: self.current_params.get('exp_name', 'unnamed_run')
base_exp_name == "unnamed_run"

\* format(value, "0{width}d") for value >= 0
RECURSIVE ZeroPad(_, _)
ZeroPad(digits, width) ==
    IF Len(digits) >= width THEN digits ELSE ZeroPad("0" \o digits, width)
Format0d(value, width) == ZeroPad(ToString(value), width)

\* exp_name of the launch loop: len_combinations is
\* len(self.parameter_combinations) as read when the name is built.
exp_name(len_combinations, reps, combo_idx, rep_idx) ==
    IF len_combinations > 1 /\ reps > 1
    THEN base_exp_name \o "_combo" \o Format0d(combo_idx + 1, 3)
                       \o "_rep" \o Format0d(rep_idx + 1, 2)
    ELSE IF len_combinations > 1
    THEN base_exp_name \o "_combo" \o Format0d(combo_idx + 1, 3)
    ELSE IF reps > 1
    THEN base_exp_name \o "_rep" \o Format0d(rep_idx + 1, 2)
    ELSE base_exp_name

\* One iteration of the launch loop of call b, for its run number run_counter
\* (0-based here): the supervisor of (combo_idx, rep_idx) is created with its
\* name and its thread is started.
NewWorker(b, reps, run_counter) ==
    LET combo_idx == run_counter \div reps
        rep_idx == run_counter % reps
    IN  [batch |-> b, state |-> "running", combo |-> combo_idx + 1,
         rep |-> rep_idx + 1,
         exp_name |-> exp_name(n_combinations, reps, combo_idx, rep_idx),
         cause |-> ""]

InitBatch ==
    /\ is_cancelled = FALSE
    /\ completed_combinations = 0
    /\ total_combinations = 0
    /\ n_combinations = 0
    /\ replicates = 1
    /\ simulation_threads = <<>>
    /\ run_button_enabled = TRUE
    /\ cancel_button_visible = FALSE
    /\ stack = <<>>
    /\ launch_loops = <<>>
    /\ n_batch = 0
    /\ worker = [w \in Workers |-> NoWorker]
    /\ batch_terminal = <<>>

\* finalize_batch(was_cancelled), called with the main thread's stack `stk`
\* and the completed count `cc`: the buttons, then the modal information box.
finalize_batch(was_cancelled, stk, cc) ==
    /\ run_button_enabled' = TRUE
    /\ cancel_button_visible' = FALSE
    /\ batch_terminal' = Append(batch_terminal,
          [batch |-> n_batch, was_cancelled |-> was_cancelled,
           completed |-> cc, total |-> total_combinations])
    /\ stack' = Append(stk, "info")

\* ------------------------------------------------------------ supervisors
\* SimulationWorker.run of supervisor w reaches self.finished.emit: the signal
\* is queued to the main thread.
WorkerFinished(w) ==
    /\ UNCHANGED <<varsRun, varsSweep>>
    /\ worker[w].state = "running"
    /\ worker' = [worker EXCEPT ![w].state = "sig_finished"]
    /\ UNCHANGED <<is_cancelled, completed_combinations, total_combinations,
                   n_combinations, replicates, simulation_threads,
                   run_button_enabled, cancel_button_visible, stack,
                   launch_loops, n_batch, batch_terminal>>

\* what an error signal reports: an exception of run() (a failure to spawn the
\* child among them), or a non-zero exit status
ErrorCauses == {"exception", "exit"}

\* SimulationWorker.run of supervisor w reaches one of its self.error.emit.
WorkerError(w) ==
    /\ UNCHANGED <<varsRun, varsSweep>>
    /\ worker[w].state = "running"
    /\ \E cause \in ErrorCauses :
          worker' = [worker EXCEPT ![w].state = "sig_error", ![w].cause = cause]
    /\ UNCHANGED <<is_cancelled, completed_combinations, total_combinations,
                   n_combinations, replicates, simulation_threads,
                   run_button_enabled, cancel_button_visible, stack,
                   launch_loops, n_batch, batch_terminal>>

\* ------------------------------------------------------------- coordinator
\* The slot on_batch_simulation_finished runs for the queued signal of w.
\* Every frame of the main thread is an event loop (a modal dialog's exec, or
\* the processEvents of the launch loop), so the slot runs whatever the top is.
on_batch_simulation_finished(w) ==
    /\ UNCHANGED <<varsRun, varsSweep>>
    /\ worker[w].state = "sig_finished"
    /\ worker' = [worker EXCEPT ![w].state = "handled", ![w].cause = ""]
    /\ IF is_cancelled
       THEN UNCHANGED <<completed_combinations, run_button_enabled,
                        cancel_button_visible, batch_terminal, stack>>
       ELSE /\ completed_combinations' = completed_combinations + 1
            /\ IF completed_combinations + 1 >= total_combinations
               THEN finalize_batch(FALSE, stack, completed_combinations + 1)
               ELSE UNCHANGED <<run_button_enabled, cancel_button_visible,
                                batch_terminal, stack>>
    /\ UNCHANGED <<is_cancelled, total_combinations, n_combinations,
                   replicates, simulation_threads, launch_loops, n_batch>>

\* The slot on_batch_simulation_error runs for the queued signal of w. With a
\* single run the modal QMessageBox.critical comes before the test of the
\* count: the test is made when that box is closed (CloseCritical).
on_batch_simulation_error(w) ==
    /\ UNCHANGED <<varsRun, varsSweep>>
    /\ worker[w].state = "sig_error"
    /\ worker' = [worker EXCEPT ![w].state = "handled", ![w].cause = ""]
    /\ IF is_cancelled
       THEN UNCHANGED <<completed_combinations, run_button_enabled,
                        cancel_button_visible, batch_terminal, stack>>
       ELSE /\ completed_combinations' = completed_combinations + 1
            /\ IF total_combinations = 1
               THEN /\ stack' = Append(stack, "critical")
                    /\ UNCHANGED <<run_button_enabled, cancel_button_visible,
                                   batch_terminal>>
               ELSE IF completed_combinations + 1 >= total_combinations
               THEN finalize_batch(FALSE, stack, completed_combinations + 1)
               ELSE UNCHANGED <<run_button_enabled, cancel_button_visible,
                                batch_terminal, stack>>
    /\ UNCHANGED <<is_cancelled, total_combinations, n_combinations,
                   replicates, simulation_threads, launch_loops, n_batch>>

\* The user closes the QMessageBox.critical of on_batch_simulation_error; the
\* slot goes on to its test of the count.
CloseCritical ==
    /\ UNCHANGED <<varsRun, varsSweep>>
    /\ Top = "critical"
    /\ IF completed_combinations >= total_combinations
       THEN finalize_batch(FALSE, Pop, completed_combinations)
       ELSE /\ stack' = Pop
            /\ UNCHANGED <<run_button_enabled, cancel_button_visible,
                           batch_terminal>>
    /\ UNCHANGED <<is_cancelled, completed_combinations, total_combinations,
                   n_combinations, replicates, simulation_threads,
                   launch_loops, n_batch, worker>>

\* The user closes the QMessageBox.information of finalize_batch.
CloseInfo ==
    /\ UNCHANGED <<varsRun, varsSweep>>
    /\ Top = "info"
    /\ stack' = Pop
    /\ UNCHANGED <<is_cancelled, completed_combinations, total_combinations,
                   n_combinations, replicates, simulation_threads,
                   run_button_enabled, cancel_button_visible, launch_loops,
                   n_batch, worker, batch_terminal>>

\* cancel_batch up to its QMessageBox.question: the flag is set before the
\* question is asked. The button is reachable when no modal dialog is open:
\* from the idle loop, and from the processEvents of the launch loop.
cancel_batch ==
    /\ UNCHANGED <<varsRun, varsSweep>>
    /\ cancel_button_visible
    /\ Top \in {"idle", "launch"}
    /\ is_cancelled' = TRUE
    /\ stack' = Append(stack, "cancel_q")
    /\ UNCHANGED <<completed_combinations, total_combinations, n_combinations,
                   replicates, simulation_threads, run_button_enabled,
                   cancel_button_visible, launch_loops, n_batch, worker,
                   batch_terminal>>

\* cancel_batch, reply Yes: thread.quit() and thread.wait(1000) on every
\* running thread (run() of a supervisor does not return to its thread's event
\* loop before its terminal signal, so neither ends a run; the threads are
\* followed in SpecThreads), then finalize_batch(was_cancelled=True).
CancelYes ==
    /\ UNCHANGED <<varsRun, varsSweep>>
    /\ Top = "cancel_q"
    /\ finalize_batch(TRUE, Pop, completed_combinations)
    /\ UNCHANGED <<is_cancelled, completed_combinations, total_combinations,
                   n_combinations, replicates, simulation_threads,
                   launch_loops, n_batch, worker>>

\* cancel_batch, reply No: the method returns.
CancelNo ==
    /\ UNCHANGED <<varsRun, varsSweep>>
    /\ Top = "cancel_q"
    /\ stack' = Pop
    /\ UNCHANGED <<is_cancelled, completed_combinations, total_combinations,
                   n_combinations, replicates, simulation_threads,
                   run_button_enabled, cancel_button_visible, launch_loops,
                   n_batch, worker, batch_terminal>>

\* run_simulation up to its "Run Simulation" question, for a parameter set
\* that expands to n combinations and r replicates: the counters are reset
\* before the question is asked. (The validation question before it changes
\* nothing, and a No there returns at once.) The click on the run button is
\* taken from the idle loop, and from the processEvents of a launch loop when
\* the button has been enabled again meanwhile.
run_simulation(n, r) ==
    /\ UNCHANGED <<varsRun, varsSweep>>
    /\ run_button_enabled
    /\ Top \in {"idle", "launch"}
    /\ n_batch < MaxBatches
    /\ n_combinations' = n
    /\ replicates' = r
    /\ total_combinations' = n * r
    /\ completed_combinations' = 0
    /\ is_cancelled' = FALSE
    /\ stack' = Append(stack, "run_q")
    /\ UNCHANGED <<simulation_threads, run_button_enabled,
                   cancel_button_visible, launch_loops, n_batch, worker,
                   batch_terminal>>

\* run_simulation, reply No: nothing is launched.
RunNo ==
    /\ UNCHANGED <<varsRun, varsSweep>>
    /\ Top = "run_q"
    /\ stack' = Pop
    /\ UNCHANGED <<is_cancelled, completed_combinations, total_combinations,
                   n_combinations, replicates, simulation_threads,
                   run_button_enabled, cancel_button_visible, launch_loops,
                   n_batch, worker, batch_terminal>>

\* run_simulation, reply Yes: launch_batch_simulation up to the first
\* QApplication.processEvents(), the first supervisor started. The supervisors
\* of an earlier batch live on when self.simulation_threads is rebound: their
\* signals are still delivered.
launch_batch_simulation ==
    /\ UNCHANGED <<varsRun, varsSweep>>
    /\ Top = "run_q"
    /\ Created + Pending(ActiveLoops) + n_combinations * replicates <= MaxWorkers
    /\ run_button_enabled' = FALSE
    /\ cancel_button_visible' = TRUE
    /\ n_batch' = n_batch + 1
    /\ launch_loops' = Append(launch_loops,
          [n |-> n_combinations, replicates |-> replicates, run_counter |-> 1,
           total |-> total_combinations, returned |-> FALSE])
    /\ worker' = [worker EXCEPT ![Created + 1] =
                     NewWorker(n_batch + 1, replicates, 0)]
    /\ simulation_threads' = <<Created + 1>>
    /\ stack' = Append(Pop, "launch")
    /\ UNCHANGED <<is_cancelled, completed_combinations, total_combinations,
                   n_combinations, replicates, batch_terminal>>

\* The launch loop with `and no run of the batch is still running` added to
\* its iteration: a launch that waits for the runs started before.
LaunchNextCapped ==
    /\ UNCHANGED <<varsRun, varsSweep>>
    /\ Top = "launch"
    /\ ToLaunch(CurrentLoop) > 0
    /\ \A w \in Workers :
          worker[w].batch = CurrentLoop => worker[w].state # "running"
    /\ worker' = [worker EXCEPT ![Created + 1] =
          NewWorker(CurrentLoop, launch_loops[CurrentLoop].replicates,
                    launch_loops[CurrentLoop].run_counter)]
    /\ simulation_threads' = Append(simulation_threads, Created + 1)
    /\ launch_loops' = [launch_loops EXCEPT ![CurrentLoop].run_counter = @ + 1]
    /\ UNCHANGED <<is_cancelled, completed_combinations, total_combinations,
                   n_combinations, replicates, run_button_enabled,
                   cancel_button_visible, stack, n_batch, batch_terminal>>

\* The launch loop leaves processEvents and starts its next supervisor.
LaunchNext ==
    /\ UNCHANGED <<varsRun, varsSweep>>
    /\ Top = "launch"
    /\ ToLaunch(CurrentLoop) > 0
    /\ worker' = [worker EXCEPT ![Created + 1] =
          NewWorker(CurrentLoop, launch_loops[CurrentLoop].replicates,
                    launch_loops[CurrentLoop].run_counter)]
    /\ simulation_threads' = Append(simulation_threads, Created + 1)
    /\ launch_loops' = [launch_loops EXCEPT ![CurrentLoop].run_counter = @ + 1]
    /\ UNCHANGED <<is_cancelled, completed_combinations, total_combinations,
                   n_combinations, replicates, run_button_enabled,
                   cancel_button_visible, stack, n_batch, batch_terminal>>

\* The launch loop leaves its last processEvents: launch_batch_simulation and
\* the run_simulation that called it return.
LaunchDone ==
    /\ UNCHANGED <<varsRun, varsSweep>>
    /\ Top = "launch"
    /\ ToLaunch(CurrentLoop) <= 0
    /\ stack' = Pop
    /\ launch_loops' = [launch_loops EXCEPT ![CurrentLoop].returned = TRUE]
    /\ UNCHANGED <<is_cancelled, completed_combinations, total_combinations,
                   n_combinations, replicates, simulation_threads,
                   run_button_enabled, cancel_button_visible,
                   n_batch, worker, batch_terminal>>

NextBatch ==
    \/ \E w \in Workers : WorkerFinished(w)
    \/ \E w \in Workers : WorkerError(w)
    \/ \E w \in Workers : on_batch_simulation_finished(w)
    \/ \E w \in Workers : on_batch_simulation_error(w)
    \/ CloseCritical
    \/ CloseInfo
    \/ cancel_batch
    \/ CancelYes
    \/ CancelNo
    \/ \E n \in 1..MaxCombos, r \in 1..MaxReplicates : run_simulation(n, r)
    \/ RunNo
    \/ launch_batch_simulation
    \/ LaunchNext
    \/ LaunchDone

\* =================================================== SimulationWorker.run
MaxStep == 3         \* checkpoints the child writes at most
MaxCode == 25        \* _interpret_exit_code is applied to -MaxCode..MaxCode

\* Exit statuses are Python integers, and 3221225477 does not fit the 32 bits
\* of a TLC integer: an integer c is the pair <<c \div 10^6, c % 10^6>>.
Base == 10 ^ 6
Wide(n) == <<n \div Base, n % Base>>
Dec(millions, rest) == <<millions, rest>>
WNeg(c) == IF c[2] = 0 THEN <<0 - c[1], 0>> ELSE <<0 - c[1] - 1, Base - c[2]>>
WIsNeg(c) == c[1] < 0

\* sim_time of the runs explored; on these, and checkpoints up to MaxStep + 1,
\* int((current_step / sim_time) * 100) in floating point equals the integer
\* quotient used in Percentage.
SimTimes == {0, 2, 20}

\* exit statuses a child is given
ChildExitCodes == {Wide(0), Wide(1), Wide(2), Wide(-9), Wide(-11),
                   Dec(3221, 225477), WNeg(Dec(1073, 741819))}

NoMsg == <<"", Wide(0)>>
NoInfo == [kind |-> "", exit_code |-> Wide(0), exit_code_msg |-> NoMsg,
           final_step |-> 0]
NoStep == 0 - 1
NoMetadata == [written |-> FALSE, exit_code |-> Wide(0), success |-> FALSE,
               final_step |-> 0]

\* progress.emit(pct, message); step is the checkpoint the message of the
\* polling loop names ("Step {current_step}/..."), NoStep in the others.
ProgressEvent(pct, step) ==
    [type |-> "progress", pct |-> pct, step |-> step, info |-> NoInfo]
Emit(seq, e) == Append(seq, e)

\* _interpret_exit_code with the test `exit_code < 0` made before the test of
\* -11 and of the access-violation statuses.
InterpretSignalFirst(c) ==
    IF c = Wide(0) THEN <<"Success", Wide(0)>>
    ELSE IF c = Wide(1) THEN <<"Python exception (check stderr)", Wide(0)>>
    ELSE IF WIsNeg(c) THEN <<"Process killed by signal", WNeg(c)>>
    ELSE IF c = Dec(3221, 225477)
        THEN <<"Windows ACCESS_VIOLATION - Known CC3D crash issue ... Try: Reduce write frequency or use smaller lattice size",
               Wide(0)>>
    ELSE <<"Unknown error (exit code)", c>>

\* _interpret_exit_code: the message, as <<text, number in the text>>.
_interpret_exit_code(c) ==
    IF c = Wide(0) THEN <<"Success", Wide(0)>>
    ELSE IF c = Wide(1) THEN <<"Python exception (check stderr)", Wide(0)>>
    ELSE IF c = Wide(-11)
        THEN <<"Segmentation fault (SIGSEGV) - CC3D crashed", Wide(0)>>
    ELSE IF c = Dec(3221, 225477) \/ c = WNeg(Dec(1073, 741819))
        THEN <<"Windows ACCESS_VIOLATION - Known CC3D crash issue ... Try: Reduce write frequency or use smaller lattice size",
               Wide(0)>>
    ELSE IF WIsNeg(c) THEN <<"Process killed by signal", WNeg(c)>>
    ELSE <<"Unknown error (exit code)", c>>

\* progress_pct without `min(95, progress_pct)`.
PercentageUncapped(current_step) == (current_step * 100) \div sim_time

\* progress_pct of _monitor_progress for current_step > 0 and sim_time # 0.
Percentage(current_step) ==
    LET progress_pct == (current_step * 100) \div sim_time
    IN  IF progress_pct < 95 THEN progress_pct ELSE 95

\* _get_latest_step that answers -1 for a store it cannot read.
GetLatestStepMinusOne(readable) == IF readable THEN store_step ELSE NoStep

\* _get_latest_step: the highest checkpoint of the store, or 0 when the store
\* does not exist or cannot be read.
_get_latest_step(readable) == IF readable THEN store_step ELSE 0

InitRunIdle ==
    /\ pc = "off"
    /\ sim_time = 0
    /\ events = <<>>
    /\ child = "none"
    /\ child_code = Wide(0)
    /\ store_step = 0
    /\ monitoring = FALSE
    /\ last_reported_step = 0
    /\ stdout_log = "unopened"
    /\ stderr_log = "unopened"
    /\ temp_script = "none"
    /\ exit_code = Wide(0)
    /\ exit_code_msg = NoMsg
    /\ final_step = 0
    /\ metadata = NoMetadata
    /\ timeout_elapsed = FALSE

\* SimulationWorker.__init__
InitRun ==
    /\ pc = "start"
    /\ sim_time \in SimTimes
    /\ events = <<>>
    /\ child = "none"
    /\ child_code = Wide(0)
    /\ store_step = 0
    /\ monitoring = FALSE
    /\ last_reported_step = 0
    /\ stdout_log = "unopened"
    /\ stderr_log = "unopened"
    /\ temp_script = "none"
    /\ exit_code = Wide(0)
    /\ exit_code_msg = NoMsg
    /\ final_step = 0
    /\ metadata = NoMetadata
    /\ timeout_elapsed = FALSE

\* The outer handlers of run() for an exception raised in its body: `except
\* Exception` emits the error, `finally` removes the temporary script.
Raise(evs) ==
    /\ events' = Emit(evs, [type |-> "error", pct |-> 0, step |-> NoStep,
                            info |-> [NoInfo EXCEPT !.kind = "exception"]])
    /\ temp_script' = IF temp_script = "exists" THEN "removed" ELSE temp_script
    /\ pc' = "returned"

\* run(): progress.emit(0, ...)
RunBegin ==
    /\ UNCHANGED <<varsBatch, varsSweep, timeout_elapsed>>
    /\ pc = "start"
    /\ events' = Emit(events, ProgressEvent(0, NoStep))
    /\ pc' = "create_script"
    /\ UNCHANGED <<sim_time, child, child_code, store_step, monitoring,
                   last_reported_step, stdout_log, stderr_log, temp_script,
                   exit_code, exit_code_msg, final_step, metadata>>

\* run(): _create_simulation_script(), then progress.emit(5, ...)
CreateScript(ok) ==
    /\ UNCHANGED <<varsBatch, varsSweep, timeout_elapsed>>
    /\ pc = "create_script"
    /\ IF ok
       THEN /\ temp_script' = "exists"
            /\ events' = Emit(events, ProgressEvent(5, NoStep))
            /\ pc' = "mkdir"
       ELSE Raise(events)
    /\ UNCHANGED <<sim_time, child, child_code, store_step, monitoring,
                   last_reported_step, stdout_log, stderr_log, exit_code,
                   exit_code_msg, final_step, metadata>>

\* run(): exp_dir.mkdir, logs_dir.mkdir
MakeDirs(ok) ==
    /\ UNCHANGED <<varsBatch, varsSweep, timeout_elapsed>>
    /\ pc = "mkdir"
    /\ IF ok
       THEN /\ pc' = "open_logs"
            /\ UNCHANGED <<events, temp_script>>
       ELSE Raise(events)
    /\ UNCHANGED <<sim_time, child, child_code, store_step, monitoring,
                   last_reported_step, stdout_log, stderr_log, exit_code,
                   exit_code_msg, final_step, metadata>>

\* run(): the two open(..., 'w'); `opened` of them succeed.
OpenLogs(opened) ==
    /\ UNCHANGED <<varsBatch, varsSweep, timeout_elapsed>>
    /\ pc = "open_logs"
    /\ stdout_log' = IF opened >= 1 THEN "open" ELSE stdout_log
    /\ stderr_log' = IF opened >= 2 THEN "open" ELSE stderr_log
    /\ IF opened = 2
       THEN /\ pc' = "popen"
            /\ UNCHANGED <<events, temp_script>>
       ELSE Raise(events)
    /\ UNCHANGED <<sim_time, child, child_code, store_step, monitoring,
                   last_reported_step, exit_code, exit_code_msg, final_step,
                   metadata>>

\* run(): subprocess.Popen, progress.emit(10, ...), and the entry of
\* _monitor_progress.
Popen(ok) ==
    /\ UNCHANGED <<varsBatch, varsSweep, timeout_elapsed>>
    /\ pc = "popen"
    /\ IF ok
       THEN /\ child' = "alive"
            /\ events' = Emit(events, ProgressEvent(10, NoStep))
            /\ monitoring' = TRUE
            /\ last_reported_step' = 0
            /\ pc' = "monitor_poll"
            /\ UNCHANGED temp_script
       ELSE /\ Raise(events)
            /\ UNCHANGED <<child, monitoring, last_reported_step>>
    /\ UNCHANGED <<sim_time, child_code, store_step, stdout_log, stderr_log,
                   exit_code, exit_code_msg, final_step, metadata>>

\* _monitor_progress: the test of its while loop.
MonitorPoll ==
    /\ UNCHANGED <<varsBatch, varsSweep, timeout_elapsed>>
    /\ pc = "monitor_poll"
    /\ IF monitoring /\ child = "alive"
       THEN /\ pc' = "monitor_sleep"
            /\ UNCHANGED monitoring
       ELSE /\ monitoring' = FALSE
            /\ pc' = "wait"
    /\ UNCHANGED <<sim_time, events, child, child_code, store_step,
                   last_reported_step, stdout_log, stderr_log, temp_script,
                   exit_code, exit_code_msg, final_step, metadata>>

\* _monitor_progress: the body of its loop after time.sleep(2). A division by
\* a zero sim_time is swallowed by the loop's except.
MonitorRead(readable) ==
    /\ UNCHANGED <<varsBatch, varsSweep, timeout_elapsed>>
    /\ pc = "monitor_sleep"
    /\ LET current_step == _get_latest_step(readable)
       IN  IF current_step > last_reported_step /\ sim_time # 0
           THEN /\ events' = Emit(events, ProgressEvent(Percentage(current_step),
                                                       current_step))
                /\ last_reported_step' = current_step
           ELSE UNCHANGED <<events, last_reported_step>>
    /\ pc' = "monitor_poll"
    /\ UNCHANGED <<sim_time, child, child_code, store_step, monitoring,
                   stdout_log, stderr_log, temp_script, exit_code,
                   exit_code_msg, final_step, metadata>>

\* run(): process.wait(timeout=86400) and its finally. With the child exited
\* the status is returned; with the child alive after 24 hours the child is
\* killed, TimeoutExpired is raised and run()'s handler emits the error.
Wait ==
    /\ UNCHANGED <<varsBatch, varsSweep, timeout_elapsed>>
    /\ pc = "wait"
    /\ stdout_log' = "closed"
    /\ stderr_log' = "closed"
    /\ IF child = "exited"
       THEN /\ exit_code' = child_code
            /\ pc' = "final_step"
            /\ UNCHANGED <<events, child, child_code, temp_script>>
       ELSE /\ child' = "exited"
            /\ child_code' = Wide(-9)
            /\ events' = Emit(events, [type |-> "error", pct |-> 0, step |-> NoStep,
                              info |-> [NoInfo EXCEPT !.kind = "timeout"]])
            /\ temp_script' = "removed"
            /\ pc' = "returned"
            /\ UNCHANGED exit_code
    /\ UNCHANGED <<sim_time, store_step, monitoring, last_reported_step,
                   exit_code_msg, final_step, metadata>>

\* run() with the call of _save_run_metadata left out of its place before
\* `if exit_code == 0`.
FinalStepSkipsMetadata(readable) ==
    /\ UNCHANGED <<varsBatch, varsSweep, timeout_elapsed>>
    /\ pc = "final_step"
    /\ final_step' = _get_latest_step(readable)
    /\ exit_code_msg' = _interpret_exit_code(exit_code)
    /\ pc' = "decide"
    /\ UNCHANGED <<sim_time, events, child, child_code, store_step, monitoring,
                   last_reported_step, stdout_log, stderr_log, temp_script,
                   exit_code, metadata>>

\* run(): _get_final_step() and _interpret_exit_code(exit_code)
FinalStep(readable) ==
    /\ UNCHANGED <<varsBatch, varsSweep, timeout_elapsed>>
    /\ pc = "final_step"
    /\ final_step' = _get_latest_step(readable)
    /\ exit_code_msg' = _interpret_exit_code(exit_code)
    /\ pc' = "save_metadata"
    /\ UNCHANGED <<sim_time, events, child, child_code, store_step, monitoring,
                   last_reported_step, stdout_log, stderr_log, temp_script,
                   exit_code, metadata>>

\* _save_run_metadata without its try/except: a failure of the write reaches
\* the `except Exception` of run().
SaveMetadataEscalates(ok) ==
    /\ UNCHANGED <<varsBatch, varsSweep, timeout_elapsed>>
    /\ pc = "save_metadata"
    /\ IF ok
       THEN /\ metadata' = [written |-> TRUE, exit_code |-> exit_code,
                            success |-> (exit_code = Wide(0)),
                            final_step |-> final_step]
            /\ pc' = "decide"
            /\ UNCHANGED <<events, temp_script>>
       ELSE /\ Raise(events)
            /\ UNCHANGED metadata
    /\ UNCHANGED <<sim_time, child, child_code, store_step, monitoring,
                   last_reported_step, stdout_log, stderr_log, exit_code,
                   exit_code_msg, final_step>>

\* _save_run_metadata: a failure of the write is caught and printed.
_save_run_metadata(ok) ==
    /\ UNCHANGED <<varsBatch, varsSweep, timeout_elapsed>>
    /\ pc = "save_metadata"
    /\ metadata' = IF ok
                   THEN [written |-> TRUE, exit_code |-> exit_code,
                         success |-> (exit_code = Wide(0)),
                         final_step |-> final_step]
                   ELSE metadata
    /\ pc' = "decide"
    /\ UNCHANGED <<sim_time, events, child, child_code, store_step, monitoring,
                   last_reported_step, stdout_log, stderr_log, temp_script,
                   exit_code, exit_code_msg, final_step>>

FinishedEvent ==
    [type |-> "finished", pct |-> 0, step |-> NoStep,
     info |-> [kind |-> "success", exit_code |-> exit_code,
               exit_code_msg |-> NoMsg, final_step |-> final_step]]
ExitErrorEvent ==
    [type |-> "error", pct |-> 0, step |-> NoStep,
     info |-> [kind |-> "exit", exit_code |-> exit_code,
               exit_code_msg |-> exit_code_msg, final_step |-> final_step]]

\* run() with the `else` of `if exit_code == 0` lost: the error is emitted
\* after the success signals as well.
TerminalEventsNoElse ==
    IF exit_code = Wide(0)
    THEN <<ProgressEvent(100, NoStep), FinishedEvent, ExitErrorEvent>>
    ELSE <<ExitErrorEvent>>

\* run() with `if exit_code >= 0` for `if exit_code == 0`.
TerminalEventsNonNegative ==
    IF ~WIsNeg(exit_code)
    THEN <<ProgressEvent(100, NoStep), FinishedEvent>>
    ELSE <<ExitErrorEvent>>

\* The signals run() emits once the exit status is classified.
TerminalEvents ==
    IF exit_code = Wide(0)
    THEN <<ProgressEvent(100, NoStep), FinishedEvent>>
    ELSE <<ExitErrorEvent>>

\* run(): `if exit_code == 0` to the end, with the cleanup of its finally.
Decide ==
    /\ UNCHANGED <<varsBatch, varsSweep, timeout_elapsed>>
    /\ pc = "decide"
    /\ events' = events \o TerminalEvents
    /\ temp_script' = "removed"
    /\ pc' = "returned"
    /\ UNCHANGED <<sim_time, child, child_code, store_step, monitoring,
                   last_reported_step, stdout_log, stderr_log, exit_code,
                   exit_code_msg, final_step, metadata>>

\* The child process appends a checkpoint to the store.
ChildWrite ==
    /\ UNCHANGED <<varsBatch, varsSweep, timeout_elapsed>>
    /\ child = "alive"
    /\ store_step < MaxStep
    /\ store_step' = store_step + 1
    /\ UNCHANGED <<pc, sim_time, events, child, child_code, monitoring,
                   last_reported_step, stdout_log, stderr_log, temp_script,
                   exit_code, exit_code_msg, final_step, metadata>>

\* The child process exits with status c.
ChildExit(c) ==
    /\ UNCHANGED <<varsBatch, varsSweep, timeout_elapsed>>
    /\ child = "alive"
    /\ child' = "exited"
    /\ child_code' = c
    /\ UNCHANGED <<pc, sim_time, events, store_step, monitoring,
                   last_reported_step, stdout_log, stderr_log, temp_script,
                   exit_code, exit_code_msg, final_step, metadata>>

\* 86400 seconds pass after subprocess.Popen, the length of the timeout of
\* process.wait.
TimeoutElapses ==
    /\ UNCHANGED <<varsBatch, varsSweep>>
    /\ child # "none"
    /\ ~timeout_elapsed
    /\ timeout_elapsed' = TRUE
    /\ UNCHANGED <<pc, sim_time, events, child, child_code, store_step,
                   monitoring, last_reported_step, stdout_log, stderr_log,
                   temp_script, exit_code, exit_code_msg, final_step, metadata>>

NextRun ==
    \/ RunBegin
    \/ \E ok \in BOOLEAN : CreateScript(ok)
    \/ \E ok \in BOOLEAN : MakeDirs(ok)
    \/ \E opened \in 0..2 : OpenLogs(opened)
    \/ \E ok \in BOOLEAN : Popen(ok)
    \/ MonitorPoll
    \/ \E readable \in BOOLEAN : MonitorRead(readable)
    \/ Wait
    \/ \E readable \in BOOLEAN : FinalStep(readable)
    \/ \E ok \in BOOLEAN : _save_run_metadata(ok)
    \/ Decide
    \/ ChildWrite
    \/ \E c \in ChildExitCodes : ChildExit(c)
    \/ TimeoutElapses

\* ================================================== _interpret_exit_code
InterpretCodes == {Wide(n) : n \in (0 - MaxCode)..MaxCode} \cup ChildExitCodes
    \cup {Dec(3221, 225476), Dec(3221, 225478),
          WNeg(Dec(1073, 741818)), WNeg(Dec(1073, 741820)),
          WNeg(Dec(3221, 225477)), Dec(1073, 741819)}

InitInterpret ==
    /\ pc = "interpret"
    /\ exit_code \in InterpretCodes
    /\ sim_time = 0
    /\ events = <<>>
    /\ child = "none"
    /\ child_code = Wide(0)
    /\ store_step = 0
    /\ monitoring = FALSE
    /\ last_reported_step = 0
    /\ stdout_log = "unopened"
    /\ stderr_log = "unopened"
    /\ temp_script = "none"
    /\ exit_code_msg = NoMsg
    /\ final_step = 0
    /\ metadata = NoMetadata
    /\ timeout_elapsed = FALSE

Interpret ==
    /\ UNCHANGED <<varsBatch, varsSweep, timeout_elapsed>>
    /\ pc = "interpret"
    /\ exit_code_msg' = _interpret_exit_code(exit_code)
    /\ pc' = "interpreted"
    /\ UNCHANGED <<sim_time, events, child, child_code, store_step, monitoring,
                   last_reported_step, stdout_log, stderr_log, temp_script,
                   exit_code, final_step, metadata>>

NextInterpret == Interpret

\* ======================================================= sweep expansion
MaxFieldLen == 3     \* characters typed in the field of parameter "x"
MaxShortLen == 2     \* characters typed in the field of parameter "sim_time"
MaxExpansions == 2   \* calls of run_simulation on one parameter set

\* The parameters, in the iteration order of self.current_params (the order of
\* the schema). "x" stands for a parameter of any declared type; the declared
\* types come with the schema, which is supplied from outside.
ParamOrder == <<"x", "sim_time", "exp_name">>
ParamNames == {ParamOrder[i] : i \in DOMAIN ParamOrder}
Types == {"int", "float", "str"}

\* A text is a sequence of characters. What can be typed in the field of "x"
\* and in the field of "sim_time".
Digits == {"0", "1", "2", "3", "4", "5", "6", "7", "8", "9"}
Texts(alphabet, maxlen) == UNION {[1..n -> alphabet] : n \in 0..maxlen}
FieldTexts == Texts({"1", ".", ",", " "}, MaxFieldLen)
ShortTexts == Texts({"2", ","}, MaxShortLen)

\* Python values: the type and the literal that denotes the value.
PyInt(t) == [type |-> "int", text |-> t]
PyFloat(t) == [type |-> "float", text |-> t]
PyStr(t) == [type |-> "str", text |-> t]
PyBool(b) == [type |-> "bool", text |-> IF b THEN <<"1">> ELSE <<"0">>]
ValueError == [type |-> "ValueError", text |-> <<>>]

Contains(text, c) == \E i \in DOMAIN text : text[i] = c

\* str.strip()
RECURSIVE lstrip(_)
lstrip(text) ==
    IF text # <<>> /\ Head(text) = " " THEN lstrip(Tail(text)) ELSE text
RECURSIVE rstrip(_)
rstrip(text) ==
    IF text # <<>> /\ text[Len(text)] = " "
    THEN rstrip(SubSeq(text, 1, Len(text) - 1)) ELSE text
strip(text) == rstrip(lstrip(text))

\* str.split(',')
RECURSIVE split(_)
split(text) ==
    IF ~Contains(text, ",") THEN <<text>>
    ELSE LET i == CHOOSE k \in DOMAIN text :
                      text[k] = "," /\ \A j \in 1..(k - 1) : text[j] # ","
         IN  <<SubSeq(text, 1, i - 1)>> \o split(SubSeq(text, i + 1, Len(text)))

\* int(text) and float(text) on texts of digits, dots and blanks: the value,
\* or ValueError raised.
int(text) ==
    LET t == strip(text)
    IN  IF t # <<>> /\ \A i \in DOMAIN t : t[i] \in Digits
        THEN PyInt(t) ELSE ValueError
float(text) ==
    LET t == strip(text)
        dots == {i \in DOMAIN t : t[i] = "."}
    IN  IF /\ Cardinality(dots) <= 1
           /\ DOMAIN t \ dots # {}
           /\ \A i \in DOMAIN t \ dots : t[i] \in Digits
        THEN PyFloat(t) ELSE ValueError

\* val_str.lower() in ('true', '1', 'yes')
bool(text) == PyBool(text = <<"1">>)

\* _convert_to_number without its `except ValueError`: the exception leaves
\* the function.
ConvertToNumberRaises(value_str) ==
    IF ~Contains(value_str, ".") THEN int(value_str) ELSE float(value_str)

\* _convert_to_number: int or float, or the text as it is when neither parses.
_convert_to_number(value_str) ==
    LET number == IF ~Contains(value_str, ".") THEN int(value_str)
                                               ELSE float(value_str)
    IN  IF number = ValueError THEN PyStr(value_str) ELSE number

\* _convert_parameter_value for the text of a QLineEdit, for a parameter whose
\* schema default has type expected_type.
_convert_parameter_value(expected_type, value) ==
    LET value_str == strip(value)
        converted == IF expected_type = "int" THEN int(value_str)
                     ELSE IF expected_type = "float" THEN float(value_str)
                     ELSE bool(value_str)
    IN  IF expected_type = "str" THEN PyStr(value)
        ELSE IF Contains(value_str, ",") THEN PyStr(value_str)
        ELSE IF converted = ValueError THEN PyStr(value)
        ELSE converted

\* `isinstance(value, str) and ',' in value`, which for the values a parameter
\* can hold is also `',' in str(value)`
IsSweepText(value) == value.type = "str" /\ Contains(value.text, ",")

Issue(severity, index, val_str, text, arg) ==
    [severity |-> severity,
     message |-> [index |-> index, val_str |-> val_str, text |-> text,
                  arg |-> arg]]

\* validate_parameter_value, for a schema that declares defaults and no
\* ranges or thresholds: the type check.
validate_parameter_value(param_name, value) ==
    IF value.type # schema[param_name]
    THEN <<Issue("ERROR", 0, <<>>, "Expected {}, got {}",
                 <<schema[param_name], value.type>>)>>
    ELSE <<>>

RECURSIVE Flatten(_)
Flatten(lists) ==
    IF lists = <<>> THEN <<>> ELSE Head(lists) \o Flatten(Tail(lists))

\* _validate_sweep_parameter
_validate_sweep_parameter(param_name, value_str) ==
    LET expected_type == schema[param_name]
        values == [i \in DOMAIN split(value_str) |-> strip(split(value_str)[i])]
        IssuesOfValue(i) ==
            LET val_str == values[i]
                converted_val ==
                    IF expected_type = "int" THEN int(val_str)
                    ELSE IF expected_type = "float" THEN float(val_str)
                    ELSE IF expected_type = "bool" THEN bool(val_str)
                    ELSE PyStr(val_str)
                issues == validate_parameter_value(param_name, converted_val)
            IN  IF converted_val = ValueError
                THEN <<Issue("ERROR", i, val_str, "Value #{} ({}): Cannot convert to {}",
                             <<expected_type>>)>>
                ELSE [k \in DOMAIN issues |->
                         Issue(issues[k].severity, i, val_str,
                               "Value #{} ({}): " \o issues[k].message.text,
                               issues[k].message.arg)]
    IN  Flatten([i \in DOMAIN values |-> IssuesOfValue(i)])

\* the `issues` of one parameter in the validation loop of run_simulation
IssuesOf(param_name) ==
    IF IsSweepText(current_params[param_name])
    THEN _validate_sweep_parameter(param_name, current_params[param_name].text)
    ELSE validate_parameter_value(param_name, current_params[param_name])

\* self.model_defaults
model_defaults ==
    [param_name \in ParamNames |->
        IF param_name = "x" THEN PyFloat(<<"1", ".", "0">>)
        ELSE IF param_name = "sim_time" THEN PyInt(<<"2">>)
        ELSE PyStr(<<"r", "u", "n">>)]

NoDict == <<>>

MaxThreads == 3      \* (thread, worker) pairs of self.simulation_threads

Threads == 1..MaxThreads

\* A QThread and the SimulationWorker moved to it. phase: "none" not created;
\* "run" started, worker.run executing as a slot of the thread's event loop;
\* "loop" run() has returned to the event loop; "finished" the event loop has
\* exited. emitted is the terminal signal of run(). quit_queued: the call of
\* thread.quit that the connection of worker.finished posts to the main
\* thread is waiting there. requests holds what the main thread has called on
\* the thread or on the child process of its worker.
NoThread == [phase |-> "none", emitted |-> "none", quit_queued |-> FALSE,
             requests |-> {}]

InitThreads == threads = [t \in Threads |-> NoThread]

\* No dict of an expansion exists, no supervisor has been given parameters,
\* no thread is created.
InitObjects ==
    /\ heap = <<>>
    /\ base_ref = 0
    /\ combination_refs = <<>>
    /\ worker_parameters = <<>>
    /\ launch_replicates = 1
    /\ launch_counter = 0
    /\ InitThreads

\* MainWindow.__init__: the sweep state, the parameters at their defaults.
InitSweepIdle ==
    /\ schema = [param_name \in ParamNames |-> model_defaults[param_name].type]
    /\ current_params = model_defaults
    /\ all_issues = NoDict
    /\ sweep_parameters = NoDict
    /\ base_parameters = NoDict
    /\ parameter_combinations = <<>>
    /\ previous_combinations = <<>>
    /\ expansions = 0
    /\ sweep_pc = "idle"
    /\ InitObjects

\* The user has typed in the fields of "x" and "sim_time" (on_parameter_changed
\* and _convert_parameter_value for each) and clicks the run button.
InitSweep ==
    /\ schema \in {f \in [ParamNames -> Types] :
                      f["sim_time"] = "int" /\ f["exp_name"] = "str"}
    /\ \E x_text \in FieldTexts, sim_time_text \in ShortTexts :
          current_params =
              [param_name \in ParamNames |->
                  IF param_name = "x"
                  THEN _convert_parameter_value(schema["x"], x_text)
                  ELSE IF param_name = "sim_time"
                  THEN _convert_parameter_value("int", sim_time_text)
                  ELSE model_defaults[param_name]]
    /\ all_issues = NoDict
    /\ sweep_parameters = NoDict
    /\ base_parameters = NoDict
    /\ parameter_combinations = <<>>
    /\ previous_combinations = <<>>
    /\ expansions = 0
    /\ sweep_pc = "validate"
    /\ InitObjects

\* run_simulation: the validation loop, up to the "Validation Issues Detected"
\* question, which is asked when a parameter has an issue.
ValidateParameters ==
    /\ UNCHANGED <<varsBatch, varsRun, varsObjects, varsLaunch, threads>>
    /\ sweep_pc = "validate"
    /\ all_issues' = [param_name \in {q \in ParamNames : IssuesOf(q) # <<>>} |->
                         IssuesOf(param_name)]
    /\ sweep_pc' = IF \E q \in ParamNames : IssuesOf(q) # <<>>
                   THEN "validation_q" ELSE "detect"
    /\ UNCHANGED <<schema, current_params, sweep_parameters, base_parameters,
                   parameter_combinations, previous_combinations, expansions>>

\* The reply to "Do you want to proceed anyway?": No returns from
\* run_simulation.
ProceedAnyway(reply) ==
    /\ UNCHANGED <<varsBatch, varsRun, varsObjects, varsLaunch, threads>>
    /\ sweep_pc = "validation_q"
    /\ sweep_pc' = IF reply THEN "detect" ELSE "returned"
    /\ UNCHANGED <<schema, current_params, all_issues, sweep_parameters,
                   base_parameters, parameter_combinations,
                   previous_combinations, expansions>>

\* value_list of detect_sweep_parameters
ValueList(value_str) ==
    [i \in DOMAIN split(value_str) |->
        _convert_to_number(strip(split(value_str)[i]))]

\* the parameters detect_sweep_parameters enters in self.sweep_parameters: the
\* text holds a comma and building value_list raised nothing
Swept ==
    {param_name \in ParamNames :
        /\ IsSweepText(current_params[param_name])
        /\ \A i \in DOMAIN ValueList(current_params[param_name].text) :
              ValueList(current_params[param_name].text)[i] # ValueError}

\* detect_sweep_parameters that also stores the first alternative in
\* self.current_params.
DetectWritesCurrentParams ==
    /\ UNCHANGED <<varsBatch, varsRun>>
    /\ sweep_pc = "detect"
    /\ sweep_parameters' = [param_name \in Swept |->
                               ValueList(current_params[param_name].text)]
    /\ base_parameters' =
          [param_name \in ParamNames |->
              IF param_name \in Swept
              THEN ValueList(current_params[param_name].text)[1]
              ELSE current_params[param_name]]
    /\ current_params' =
          [param_name \in ParamNames |->
              IF param_name \in Swept
              THEN ValueList(current_params[param_name].text)[1]
              ELSE current_params[param_name]]
    /\ heap' = Append(heap, base_parameters')
    /\ base_ref' = Len(heap) + 1
    /\ UNCHANGED <<combination_refs, varsLaunch, threads>>
    /\ sweep_pc' = "generate"
    /\ UNCHANGED <<schema, all_issues, parameter_combinations,
                   previous_combinations, expansions>>

\* detect_sweep_parameters. self.base_parameters is bound to a new dict.
detect_sweep_parameters ==
    /\ UNCHANGED <<varsBatch, varsRun>>
    /\ sweep_pc = "detect"
    /\ sweep_parameters' = [param_name \in Swept |->
                               ValueList(current_params[param_name].text)]
    /\ base_parameters' =
          [param_name \in ParamNames |->
              IF param_name \in Swept
              THEN ValueList(current_params[param_name].text)[1]
              ELSE current_params[param_name]]
    /\ heap' = Append(heap, base_parameters')
    /\ base_ref' = Len(heap) + 1
    /\ UNCHANGED <<combination_refs, varsLaunch, threads>>
    /\ sweep_pc' = "generate"
    /\ UNCHANGED <<schema, current_params, all_issues, parameter_combinations,
                   previous_combinations, expansions>>

Min(a, b) == IF a <= b THEN a ELSE b

\* zip(*lists) in the place of itertools.product(*lists)
RECURSIVE zip(_)
zip(lists) ==
    IF lists = <<>> THEN << <<>> >>
    ELSE IF Len(lists) = 1 THEN [k \in DOMAIN lists[1] |-> <<lists[1][k]>>]
    ELSE LET rest == zip(Tail(lists))
         IN  [k \in 1..Min(Len(Head(lists)), Len(rest)) |->
                 <<Head(lists)[k]>> \o rest[k]]

\* itertools.product(*lists): the last list varies fastest
RECURSIVE product(_)
product(lists) ==
    IF lists = <<>> THEN << <<>> >>
    ELSE LET rest == product(Tail(lists))
             n == Len(rest)
         IN  [k \in 1..(Len(Head(lists)) * n) |->
                 <<Head(lists)[((k - 1) \div n) + 1]>> \o rest[((k - 1) % n) + 1]]

\* the list generate_parameter_combinations returns
Combinations ==
    IF DOMAIN sweep_parameters = {}
    THEN <<base_parameters>>
    ELSE LET param_names ==
                 SelectSeq(ParamOrder, LAMBDA q : q \in DOMAIN sweep_parameters)
             param_values ==
                 [i \in DOMAIN param_names |-> sweep_parameters[param_names[i]]]
             value_combinations == product(param_values)
             Position(q) == CHOOSE i \in DOMAIN param_names : param_names[i] = q
         IN  [k \in DOMAIN value_combinations |->
                 [q \in DOMAIN base_parameters |->
                     IF q \in DOMAIN sweep_parameters
                     THEN value_combinations[k][Position(q)]
                     ELSE base_parameters[q]]]

\* generate_parameter_combinations, and the assignment of its result to
\* self.parameter_combinations in run_simulation. Every combination is a new
\* dict, a copy of self.base_parameters.
generate_parameter_combinations ==
    /\ UNCHANGED <<varsBatch, varsRun>>
    /\ sweep_pc = "generate"
    /\ parameter_combinations' = Combinations
    /\ heap' = heap \o Combinations
    /\ combination_refs' = [k \in DOMAIN Combinations |-> Len(heap) + k]
    /\ UNCHANGED <<base_ref, varsLaunch, threads>>
    /\ previous_combinations' = parameter_combinations
    /\ expansions' = expansions + 1
    /\ sweep_pc' = "expanded"
    /\ UNCHANGED <<schema, current_params, all_issues, sweep_parameters,
                   base_parameters>>

\* run_simulation is called again on the same parameters (its "Run
\* Simulation" question was answered No, or the batch it launched is over).
RunAgain ==
    /\ UNCHANGED <<varsBatch, varsRun, varsObjects, varsLaunch, threads>>
    /\ sweep_pc = "expanded"
    /\ expansions < MaxExpansions
    /\ sweep_pc' = "validate"
    /\ UNCHANGED <<schema, current_params, all_issues, sweep_parameters,
                   base_parameters, parameter_combinations,
                   previous_combinations, expansions>>

NextSweep ==
    \/ ValidateParameters
    \/ \E reply \in BOOLEAN : ProceedAnyway(reply)
    \/ detect_sweep_parameters
    \/ generate_parameter_combinations
    \/ RunAgain

\* ============================================== the dicts of a launch
\* The launch loop with `params_copy = params` for `params_copy =
\* params.copy()`: the supervisor is given the dict of the combination itself.
LaunchIterationAliased ==
    /\ UNCHANGED <<varsBatch, varsRun>>
    /\ sweep_pc = "expanded"
    /\ launch_counter < Len(combination_refs) * launch_replicates
    /\ LET combo_idx == launch_counter \div launch_replicates
           rep_idx == launch_counter % launch_replicates
           params == combination_refs[combo_idx + 1]
           name == exp_name(Len(combination_refs), launch_replicates,
                            combo_idx, rep_idx)
       IN  /\ heap' = [heap EXCEPT ![params]["exp_name"] = PyStr(<<name>>)]
           /\ worker_parameters' = Append(worker_parameters, params)
    /\ launch_counter' = launch_counter + 1
    /\ UNCHANGED <<schema, current_params, all_issues, sweep_parameters,
                   base_parameters, parameter_combinations,
                   previous_combinations, expansions, sweep_pc, base_ref,
                   combination_refs, launch_replicates, threads>>

\* One iteration of the launch loop, on the dicts: params is the dict of the
\* combination, params_copy a new dict with its items and the name of the run,
\* and the SimulationWorker keeps params_copy as self.parameters.
LaunchIteration ==
    /\ UNCHANGED <<varsBatch, varsRun>>
    /\ sweep_pc = "expanded"
    /\ launch_counter < Len(combination_refs) * launch_replicates
    /\ LET combo_idx == launch_counter \div launch_replicates
           rep_idx == launch_counter % launch_replicates
           params == combination_refs[combo_idx + 1]
           name == exp_name(Len(combination_refs), launch_replicates,
                            combo_idx, rep_idx)
           params_copy == [heap[params] EXCEPT !["exp_name"] = PyStr(<<name>>)]
       IN  /\ heap' = Append(heap, params_copy)
           /\ worker_parameters' = Append(worker_parameters, Len(heap) + 1)
    /\ launch_counter' = launch_counter + 1
    /\ UNCHANGED <<schema, current_params, all_issues, sweep_parameters,
                   base_parameters, parameter_combinations,
                   previous_combinations, expansions, sweep_pc, base_ref,
                   combination_refs, launch_replicates, threads>>

\* run_simulation after its validation, for the texts typed in the fields of
\* "x" and "sim_time" and the number of replicates of the spin box.
InitLaunch ==
    /\ schema = [param_name \in ParamNames |-> model_defaults[param_name].type]
    /\ \E x_text \in FieldTexts, sim_time_text \in ShortTexts :
          current_params =
              [param_name \in ParamNames |->
                  IF param_name = "x"
                  THEN _convert_parameter_value(schema["x"], x_text)
                  ELSE IF param_name = "sim_time"
                  THEN _convert_parameter_value("int", sim_time_text)
                  ELSE model_defaults[param_name]]
    /\ all_issues = NoDict
    /\ sweep_parameters = NoDict
    /\ base_parameters = NoDict
    /\ parameter_combinations = <<>>
    /\ previous_combinations = <<>>
    /\ expansions = 0
    /\ sweep_pc = "detect"
    /\ heap = <<>>
    /\ base_ref = 0
    /\ combination_refs = <<>>
    /\ worker_parameters = <<>>
    /\ launch_replicates \in 1..MaxReplicates
    /\ launch_counter = 0
    /\ InitThreads

NextLaunch ==
    \/ detect_sweep_parameters
    \/ generate_parameter_combinations
    \/ LaunchIteration

\* ================================================ supervisor threads
\* thread.isRunning()
isRunning(t) == threads[t].phase \in {"run", "loop"}

\* launch_batch_simulation: QThread(), moveToThread, the connections,
\* thread.start(), self.simulation_threads.append.
ThreadStart(t) ==
    /\ UNCHANGED <<varsBatch, varsRun>>
    /\ threads[t].phase = "none"
    /\ \A u \in Threads : u < t => threads[u].phase # "none"
    /\ threads' = [threads EXCEPT ![t].phase = "run"]
    /\ UNCHANGED <<schema, current_params, all_issues, sweep_parameters,
                   base_parameters, parameter_combinations,
                   previous_combinations, expansions, sweep_pc, varsObjects,
                   varsLaunch>>

\* run() emits finished and returns. worker.finished is connected to
\* thread.quit, a slot of the QThread object, which lives in the main thread:
\* the call is posted there.
ThreadRunFinished(t) ==
    /\ UNCHANGED <<varsBatch, varsRun>>
    /\ threads[t].phase = "run"
    /\ threads' = [threads EXCEPT ![t].phase = "loop",
                                  ![t].emitted = "finished",
                                  ![t].quit_queued = TRUE]
    /\ UNCHANGED <<schema, current_params, all_issues, sweep_parameters,
                   base_parameters, parameter_combinations,
                   previous_combinations, expansions, sweep_pc, varsObjects,
                   varsLaunch>>

\* run() emits error and returns. worker.error is connected to
\* on_batch_simulation_error only.
ThreadRunError(t) ==
    /\ UNCHANGED <<varsBatch, varsRun>>
    /\ threads[t].phase = "run"
    /\ threads' = [threads EXCEPT ![t].phase = "loop",
                                  ![t].emitted = "error"]
    /\ UNCHANGED <<schema, current_params, all_issues, sweep_parameters,
                   base_parameters, parameter_combinations,
                   previous_combinations, expansions, sweep_pc, varsObjects,
                   varsLaunch>>

\* The main thread runs the posted thread.quit().
ThreadQuitDelivered(t) ==
    /\ UNCHANGED <<varsBatch, varsRun>>
    /\ threads[t].quit_queued
    /\ threads' = [threads EXCEPT ![t].quit_queued = FALSE,
                                  ![t].requests = @ \cup {"quit"}]
    /\ UNCHANGED <<schema, current_params, all_issues, sweep_parameters,
                   base_parameters, parameter_combinations,
                   previous_combinations, expansions, sweep_pc, varsObjects,
                   varsLaunch>>

\* The event loop of the thread, asked to quit and not executing run(), exits:
\* the thread is finished.
ThreadExits(t) ==
    /\ UNCHANGED <<varsBatch, varsRun>>
    /\ threads[t].phase = "loop"
    /\ "quit" \in threads[t].requests
    /\ threads' = [threads EXCEPT ![t].phase = "finished"]
    /\ UNCHANGED <<schema, current_params, all_issues, sweep_parameters,
                   base_parameters, parameter_combinations,
                   previous_combinations, expansions, sweep_pc, varsObjects,
                   varsLaunch>>

\* cancel_batch, reply Yes: for every (thread, worker) of
\* self.simulation_threads whose thread is running, thread.quit() and
\* thread.wait(1000).
CancelQuitsThreads ==
    /\ UNCHANGED <<varsBatch, varsRun>>
    /\ \E t \in Threads : threads[t].phase # "none"
    /\ threads' = [t \in Threads |->
                      IF isRunning(t)
                      THEN [threads[t] EXCEPT !.requests = @ \cup {"quit"}]
                      ELSE threads[t]]
    /\ UNCHANGED <<schema, current_params, all_issues, sweep_parameters,
                   base_parameters, parameter_combinations,
                   previous_combinations, expansions, sweep_pc, varsObjects,
                   varsLaunch>>

NextThreads ==
    \/ \E t \in Threads : ThreadStart(t)
    \/ \E t \in Threads : ThreadRunFinished(t)
    \/ \E t \in Threads : ThreadRunError(t)
    \/ \E t \in Threads : ThreadQuitDelivered(t)
    \/ \E t \in Threads : ThreadExits(t)
    \/ CancelQuitsThreads

\* ======================================================== specifications
Init == InitBatch /\ InitRunIdle /\ InitSweepIdle
Next == NextBatch
Spec == Init /\ [][Next]_vars

\* The Qt scheduling: a queued signal is delivered to its slot, a modal dialog
\* is answered, the launch loop goes on. Nothing makes a child process exit,
\* and nothing makes the user press a button of the main window.
Fairness ==
    /\ \A w \in Workers : WF_vars(on_batch_simulation_finished(w))
    /\ \A w \in Workers : WF_vars(on_batch_simulation_error(w))
    /\ WF_vars(CloseCritical)
    /\ WF_vars(CloseInfo)
    /\ WF_vars(CancelYes \/ CancelNo)
    /\ WF_vars(RunNo \/ launch_batch_simulation)
    /\ WF_vars(LaunchNext)
    /\ WF_vars(LaunchDone)

FairSpec == Spec /\ Fairness

InitSpecRun == InitBatch /\ InitRun /\ InitSweepIdle
SpecRun == InitSpecRun /\ [][NextRun]_vars

\* The supervisor's thread is scheduled (every statement of run() that can be
\* executed is executed) and time passes. Nothing makes the child exit.
FairnessRun ==
    /\ WF_vars(RunBegin)
    /\ WF_vars(\E ok \in BOOLEAN : CreateScript(ok))
    /\ WF_vars(\E ok \in BOOLEAN : MakeDirs(ok))
    /\ WF_vars(\E opened \in 0..2 : OpenLogs(opened))
    /\ WF_vars(\E ok \in BOOLEAN : Popen(ok))
    /\ WF_vars(MonitorPoll)
    /\ WF_vars(\E readable \in BOOLEAN : MonitorRead(readable))
    /\ WF_vars(Wait)
    /\ WF_vars(\E readable \in BOOLEAN : FinalStep(readable))
    /\ WF_vars(\E ok \in BOOLEAN : _save_run_metadata(ok))
    /\ WF_vars(Decide)
    /\ WF_vars(TimeoutElapses)

FairSpecRun == SpecRun /\ FairnessRun

InitSpecInterpret == InitBatch /\ InitInterpret /\ InitSweepIdle
SpecInterpret == InitSpecInterpret /\ [][NextInterpret]_vars

InitSpecSweep == InitBatch /\ InitRunIdle /\ InitSweep
SpecSweep == InitSpecSweep /\ [][NextSweep]_vars

InitSpecLaunch == InitBatch /\ InitRunIdle /\ InitLaunch
SpecLaunch == InitSpecLaunch /\ [][NextLaunch]_vars

InitSpecThreads == InitBatch /\ InitRunIdle /\ InitSweepIdle
SpecThreads == InitSpecThreads /\ [][NextThreads]_vars

\* The main thread runs what is posted to it, and an event loop that has been
\* asked to quit exits. Nothing makes a run end, and nothing makes the user
\* cancel.
FairnessThreads ==
    /\ \A t \in Threads : WF_vars(ThreadQuitDelivered(t))
    /\ \A t \in Threads : WF_vars(ThreadExits(t))

FairSpecThreads == SpecThreads /\ FairnessThreads

\* ================================================================ claims
TerminalStates == {"sig_finished", "sig_error", "handled"}
WorkersOf(b) == {w \in Workers : worker[w].batch = b}
FinalizedCount(b) ==
    Cardinality({i \in DOMAIN batch_terminal : batch_terminal[i].batch = b})
IsDelivery(w) ==
    /\ worker[w].state \in {"sig_finished", "sig_error"}
    /\ worker'[w].state = "handled"

\* C1: for every batch launched, finalize_batch fires exactly once for that
\* batch, whatever the interleaving of terminal signals, cancel requests and
\* later launches. Stated here is the half a finite run refutes: it never
\* fires a second time while the batch is the current one.
C1_FinalizedOncePerBatch ==
    \A b \in 1..n_batch : FinalizedCount(b) <= 1

\* C2: once every child of the launched batch has exited, its terminal signal
\* has reached its slot and the main thread is back in its idle loop, the
\* batch has reached its terminal state: finalize_batch has fired for it and
\* the run button is enabled, whatever was answered to cancel requests.
C2_AllExitedThenFinalized ==
    ( /\ n_batch >= 1
      /\ stack = <<>>
      /\ Cardinality(WorkersOf(n_batch)) = n_combinations * replicates
      /\ \A w \in WorkersOf(n_batch) : worker[w].state = "handled" )
    => (FinalizedCount(n_batch) >= 1 /\ run_button_enabled)

\* C3: every terminal signal a supervisor of the current batch delivers to
\* its slot increases completed_combinations by exactly 1, also after a
\* cancellation has been requested.
C3_EveryTerminalCounted ==
    [][\A w \in Workers :
          (IsDelivery(w) /\ worker[w].batch = n_batch)
          => completed_combinations' = completed_combinations + 1]_vars

\* C4: within one batch completed_combinations never decreases and never
\* exceeds total_combinations (so it becomes equal to it at most once); only
\* run_simulation, which begins another batch, resets it.
C4_CountMonotoneWithinTotal ==
    /\ [](completed_combinations <= total_combinations)
    /\ [][Top' # "run_q" => completed_combinations' >= completed_combinations]_vars

\* C5: after a cancel mid-batch has been carried out (finalize_batch fired
\* with was_cancelled = true), every run of that batch eventually is terminal
\* (Cancelled, or a natural terminal state).
C5_CancelledRunsBecomeTerminal ==
    \A b \in 1..MaxBatches :
        (\E i \in DOMAIN batch_terminal :
            batch_terminal[i].batch = b /\ batch_terminal[i].was_cancelled)
        ~> (\A w \in WorkersOf(b) : worker[w].state \in TerminalStates)

TerminalIndexes == {i \in DOMAIN events : events[i].type \in {"finished", "error"}}
ProgressIndexes == {i \in DOMAIN events : events[i].type = "progress"}
LastEvent == events[Len(events)]

C7_ProgressNonDecreasing ==
    \A i, j \in ProgressIndexes : i < j => events[i].pct <= events[j].pct

AccessViolationText ==
    "Windows ACCESS_VIOLATION - Known CC3D crash issue ... Try: Reduce write frequency or use smaller lattice size"

\* n = -c, on the pairs that stand for integers
IsNegationOf(n, c) ==
    \E k \in {0, 1} : c[2] + n[2] = k * Base /\ c[1] + n[1] + k = 0

\* the decision table of the exit statuses: m is the message for status c
InTable(c, m) ==
    IF c = <<0, 0>> THEN m[1] = "Success"
    ELSE IF c = <<0, 1>> THEN m[1] = "Python exception (check stderr)"
    ELSE IF c = <<0 - 1, 999989>>
        THEN m[1] = "Segmentation fault (SIGSEGV) - CC3D crashed"
    ELSE IF c = <<3221, 225477>> \/ c = <<0 - 1074, 258181>>
        THEN m[1] = AccessViolationText
    ELSE IF c[1] < 0
        THEN m[1] = "Process killed by signal" /\ IsNegationOf(m[2], c)
    ELSE m = <<"Unknown error (exit code)", c>>

C10_InterpretFollowsTable ==
    pc = "interpreted" => InTable(exit_code, exit_code_msg)

\* a status killed by signal 9
C10_Witness ==
    /\ pc = "interpreted"
    /\ exit_code = <<0 - 1, 999991>>
    /\ exit_code_msg = <<"Process killed by signal", <<0, 9>>>>

\* C11: a child that has not exited when the hard timeout (86400 s after its
\* launch) has elapsed is terminated by the supervisor and the run is reported
\* through the error signal: the run reaches its terminal signal even if the
\* child never exits on its own.
C11_TimeoutEndsRun ==
    (timeout_elapsed /\ child = "alive") ~> (child = "exited" /\ pc = "returned")

SpawnFailureEmitsOneError ==
    (pc = "returned" /\ child = "none" /\ stdout_log = "open"
                     /\ stderr_log = "open") =>
        /\ Cardinality(TerminalIndexes) = 1
        /\ LastEvent.type = "error"
        /\ LastEvent.info.kind = "exception"

\* C12: a run whose child could not be spawned ends with one error signal
\* that reports the exception, and only that run is affected: the coordinator
\* counts the signal as one completed run of its batch.
C12_SpawnFailureCounted ==
    [][\A w \in Workers :
          ( /\ worker[w].state = "sig_error"
            /\ worker[w].cause = "exception"
            /\ worker[w].batch = n_batch
            /\ worker'[w].state = "handled" )
          => completed_combinations' = completed_combinations + 1]_vars

\* {c:03d} and {r:02d} of the naming rule, for the numbers a batch can hold
ThreeDigits(c) ==
    IF c < 10 THEN "00" \o ToString(c)
    ELSE IF c < 100 THEN "0" \o ToString(c) ELSE ToString(c)
TwoDigits(r) == IF r < 10 THEN "0" \o ToString(r) ELSE ToString(r)

\* the naming rule for base name B, N configurations, R replicates, 1-based c, r
NamingRule(B, N, R, c, r) ==
    IF N = 1 /\ R = 1 THEN B
    ELSE IF N > 1 /\ R = 1 THEN B \o "_combo" \o ThreeDigits(c)
    ELSE IF N = 1 /\ R > 1 THEN B \o "_rep" \o TwoDigits(r)
    ELSE B \o "_combo" \o ThreeDigits(c) \o "_rep" \o TwoDigits(r)

\* C17: the run identifier of every supervisor is the one the naming rule
\* gives for the base name, the N configurations and R replicates of the launch
\* that created it, and its 1-based combination and replicate indexes.
C17_NameFollowsRule ==
    \A w \in Workers :
        worker[w].state # "none" =>
            worker[w].exp_name =
                NamingRule(base_exp_name, launch_loops[worker[w].batch].n,
                           launch_loops[worker[w].batch].replicates,
                           worker[w].combo, worker[w].rep)

\* C18: within one batch the run identifiers of the supervisors are pairwise
\* distinct.
C18_NamesDistinctInBatch ==
    \A v, w \in Workers :
        ( /\ v # w
          /\ worker[v].state # "none"
          /\ worker[w].state # "none"
          /\ worker[v].batch = worker[w].batch )
        => worker[v].exp_name # worker[w].exp_name

PairsOf(b) == {<<worker[w].combo, worker[w].rep>> : w \in WorkersOf(b)}

\* C19: a launch of N configurations with R replicates creates and starts one
\* supervisor per (configuration, replicate) pair, N x R in all when it
\* returns, which is total_combinations as the launch found it; and while
\* supervisors remain to be started the loop can start the next one whatever
\* the state of the runs started before.
C19_LaunchStartsAllPairs ==
    \A b \in DOMAIN launch_loops :
        LET loop == launch_loops[b]
        IN  /\ loop.total = loop.n * loop.replicates
            /\ Cardinality(WorkersOf(b)) = loop.run_counter
            /\ Cardinality(PairsOf(b)) = loop.run_counter
            /\ PairsOf(b) \subseteq (1..loop.n) \X (1..loop.replicates)
            /\ \A w \in WorkersOf(b) : worker[w].state # "none"
            /\ loop.returned => loop.run_counter = loop.n * loop.replicates
            /\ (Top = "launch" /\ b = CurrentLoop /\ ToLaunch(b) > 0)
                  => ENABLED LaunchNext

\* a launch of 2 configurations x 2 replicates has returned with its four
\* supervisors all still running
C19_Witness ==
    \E b \in DOMAIN launch_loops :
        /\ launch_loops[b].returned
        /\ launch_loops[b].n = 2
        /\ launch_loops[b].replicates = 2
        /\ Cardinality(WorkersOf(b)) = 4
        /\ \A w \in WorkersOf(b) : worker[w].state = "running"

\* the name built by the launch loop is the naming rule applied to the length
\* of self.parameter_combinations the loop reads when it builds the name
NamingFunctionFollowsRule ==
    \A N \in 1..MaxCombos, R \in 1..MaxReplicates, c \in 1..MaxCombos,
       r \in 1..MaxReplicates :
        exp_name(N, R, c - 1, r - 1) = NamingRule(base_exp_name, N, R, c, r)

\* ---------------------------------------------------------------- sweep
\* The parameters whose field holds the delimiter, and how many alternatives
\* the text of such a field lists.
SweepFields == {q \in ParamNames : IsSweepText(current_params[q])}
Alternatives(q) ==
    Cardinality({i \in DOMAIN current_params[q].text :
                    current_params[q].text[i] = ","}) + 1
RECURSIVE ProductOver(_)
ProductOver(S) ==
    IF S = {} THEN 1
    ELSE LET q == CHOOSE r \in S : TRUE
         IN  Alternatives(q) * ProductOver(S \ {q})
Choices ==
    {f \in [SweepFields -> 1..(MaxFieldLen + 2)] :
        \A q \in SweepFields : f[q] <= Alternatives(q)}

\* C13: once expansion has returned, a parameter set with k sweep parameters
\* of n1..nk alternatives has given n1*...*nk configurations, every element
\* of the Cartesian product of the alternatives is one of them, every
\* configuration is such an element, and a parameter that is not swept has in
\* every configuration the value it has in the base set.
C13_ExpansionIsCartesianProduct ==
    sweep_pc = "expanded" =>
        /\ DOMAIN sweep_parameters = SweepFields
        /\ \A q \in SweepFields : Len(sweep_parameters[q]) = Alternatives(q)
        /\ Len(parameter_combinations) = ProductOver(SweepFields)
        /\ \A f \in Choices : \E k \in DOMAIN parameter_combinations :
              \A q \in SweepFields :
                  parameter_combinations[k][q] = sweep_parameters[q][f[q]]
        /\ \A k \in DOMAIN parameter_combinations :
              /\ DOMAIN parameter_combinations[k] = ParamNames
              /\ \E f \in Choices : \A q \in SweepFields :
                    parameter_combinations[k][q] = sweep_parameters[q][f[q]]
              /\ \A q \in ParamNames \ SweepFields :
                    parameter_combinations[k][q] = current_params[q]

\* Two sweep parameters, of three and of two alternatives, expanded to six
\* configurations.
C13_Witness ==
    /\ sweep_pc = "expanded"
    /\ SweepFields = {"x", "sim_time"}
    /\ Alternatives("x") = 3
    /\ Alternatives("sim_time") = 2
    /\ Len(parameter_combinations) = 6

\* C14: every alternative that expansion produces for a sweep parameter has
\* the type of the parameter's schema default.
C14_AlternativesHaveDeclaredType ==
    \A q \in DOMAIN sweep_parameters : \A i \in DOMAIN sweep_parameters[q] :
        sweep_parameters[q][i].type = schema[q]

\* The tokens of the field of a numeric parameter that do not denote a value
\* of the parameter's declared type.
Token(q, i) == strip(split(current_params[q].text)[i])
Malformed ==
    {qi \in ParamNames \X (1..(MaxFieldLen + 2)) :
        /\ qi[1] \in SweepFields
        /\ qi[2] <= Alternatives(qi[1])
        /\ \/ schema[qi[1]] = "int" /\ int(Token(qi[1], qi[2])) = ValueError
           \/ schema[qi[1]] = "float" /\ float(Token(qi[1], qi[2])) = ValueError}

\* C15: once run_simulation has validated the parameters, every malformed
\* numeric token of a sweep field is reported by an ERROR issue, with severity
\* and message, kept under the name of its parameter; and the expansion that
\* follows returns the full set of configurations all the same.
C15_MalformedTokenReportedNotFatal ==
    /\ sweep_pc \in {"validation_q", "detect", "generate", "expanded", "returned"} =>
          \A qi \in Malformed :
              /\ qi[1] \in DOMAIN all_issues
              /\ \E j \in DOMAIN all_issues[qi[1]] :
                    /\ DOMAIN all_issues[qi[1]][j] = {"severity", "message"}
                    /\ all_issues[qi[1]][j].severity = "ERROR"
                    /\ all_issues[qi[1]][j].message.index = qi[2]
                    /\ all_issues[qi[1]][j].message.val_str = Token(qi[1], qi[2])
    /\ sweep_pc = "expanded" =>
          Len(parameter_combinations) = ProductOver(SweepFields)

\* A field with a malformed token has been validated and expanded to more than
\* one configuration.
C15_Witness ==
    /\ sweep_pc = "expanded"
    /\ Malformed # {}
    /\ \E qi \in Malformed : qi[1] \in DOMAIN all_issues
    /\ Len(parameter_combinations) >= 2

\* C16: no step of expansion changes current_params; the list an expansion
\* returned changes only when another expansion returns; and the second
\* expansion of a parameter set returns the list the first returned, in the
\* same order.
C16_ExpansionPureAndRepeatable ==
    /\ [][current_params' = current_params]_vars
    /\ [][expansions' = expansions =>
              parameter_combinations' = parameter_combinations]_vars
    /\ [](sweep_pc = "expanded" /\ expansions >= 2 =>
              parameter_combinations = previous_combinations)

\* A parameter set with a sweep field has been expanded twice.
C16_Witness ==
    /\ sweep_pc = "expanded"
    /\ expansions = 2
    /\ SweepFields # {}
    /\ Len(parameter_combinations) >= 2
    /\ parameter_combinations = previous_combinations

\* ------------------------------------------------------- cancellation
\* a step that emits the batch-terminal event (a call of finalize_batch)
BatchTerminalEmitted == Len(batch_terminal') = Len(batch_terminal) + 1

\* C21: once cancellation has been requested, the batch-terminal event is
\* emitted only when every supervisor of the batch has emitted its terminal
\* signal, or when the completed count has reached the total.
C21_CancelledBatchWaitsForRuns ==
    [][(BatchTerminalEmitted /\ is_cancelled) =>
          \/ \A w \in WorkersOf(n_batch) : worker[w].state \in TerminalStates
          \/ completed_combinations' >= total_combinations]_vars

\* C27: the cancellation flag is set only while the confirmation of a
\* cancellation is awaited or after a cancellation has been carried out: a
\* declined cancellation leaves the flag unset, so that the terminal signals
\* that follow are counted.
C27_DeclinedCancelLeavesFlagUnset ==
    is_cancelled =>
        \/ \E i \in DOMAIN stack : stack[i] = "cancel_q"
        \/ \E i \in DOMAIN batch_terminal : batch_terminal[i].was_cancelled

\* C28: the terminal signal of a supervisor of an earlier batch changes
\* neither the completed count of the later batch nor its buttons, and does
\* not call finalize_batch.
C28_EarlierBatchNotCounted ==
    [][\A w \in Workers :
          (IsDelivery(w) /\ worker[w].batch < n_batch) =>
              /\ completed_combinations' = completed_combinations
              /\ batch_terminal' = batch_terminal]_vars

\* ------------------------------------------------------- one run, again
\* run() has returned after reporting the exit of the child
ExitReported ==
    /\ pc = "returned"
    /\ Len(events) > 0
    /\ LastEvent.info.kind \in {"success", "exit"}

\* a step that emits the terminal signal of an exited child
ExitSignalEmitted ==
    /\ Len(events') > Len(events)
    /\ events'[Len(events')].info.kind \in {"success", "exit"}

C24_LogsClosedOnReturn ==
    (pc = "returned" /\ stdout_log # "unopened" /\ stderr_log # "unopened") =>
        (stdout_log = "closed" /\ stderr_log = "closed")

\* C25: a poll that cannot read the store emits nothing, reports no step and
\* leaves the polling loop running; a final re-read that cannot read the store
\* gives step 0 and goes on to the record; and the terminal signal of a run
\* whose child exited is an error only when the exit status is not 0.
C25_UnreadableStoreNoFault ==
    /\ [][MonitorRead(FALSE) =>
             /\ events' = events
             /\ last_reported_step' = last_reported_step
             /\ monitoring' = monitoring
             /\ pc' = "monitor_poll"]_vars
    /\ [][FinalStep(FALSE) =>
             /\ final_step' = 0
             /\ events' = events
             /\ pc' = "save_metadata"]_vars
    /\ []((pc = "returned" /\ child = "exited") =>
             (LastEvent.type = "error" <=> child_code # <<0, 0>>))

\* the store held checkpoints, the final re-read could not read it, and the run
\* ended with the success signal
C25_Witness ==
    /\ pc = "returned"
    /\ store_step > 0
    /\ final_step = 0
    /\ last_reported_step = 0
    /\ sim_time # 0
    /\ LastEvent.type = "finished"

\* C30: the final step of a run, as re-read after the exit of the child and
\* reported in the terminal signal and in the record, is at least the step of
\* every progress signal of the run.
C30_FinalStepAtLeastProgress ==
    (pc \in {"save_metadata", "decide"} \/ ExitReported) =>
        \A i \in ProgressIndexes :
            events[i].step # NoStep => events[i].step <= final_step

\* ------------------------------------------------------- the dicts
WorkerCombination(i) == ((i - 1) \div launch_replicates) + 1
WorkerReplicate(i) == ((i - 1) % launch_replicates) + 1
CombinationAddresses ==
    {combination_refs[k] : k \in DOMAIN combination_refs}

\* C26: every supervisor holds a dict of its own: it is not the dict of a
\* combination, not self.base_parameters and not the dict of another
\* supervisor; it holds the items of its combination with exp_name replaced by
\* the name of the run; and giving a supervisor its name changes no entry of
\* parameter_combinations, not the base parameters and no other supervisor's
\* dict.
C26_SupervisorsOwnTheirParameters ==
    /\ [](sweep_pc = "expanded" =>
             /\ heap[base_ref] = base_parameters
             /\ \A k \in DOMAIN combination_refs :
                   heap[combination_refs[k]] = parameter_combinations[k]
             /\ \A i \in DOMAIN worker_parameters :
                   /\ worker_parameters[i] \notin CombinationAddresses
                   /\ worker_parameters[i] # base_ref
                   /\ \A j \in DOMAIN worker_parameters :
                         i # j => worker_parameters[i] # worker_parameters[j]
                   /\ \A q \in ParamNames \ {"exp_name"} :
                         heap[worker_parameters[i]][q] =
                             parameter_combinations[WorkerCombination(i)][q]
                   /\ heap[worker_parameters[i]]["exp_name"] =
                         PyStr(<<NamingRule(base_exp_name, Len(combination_refs),
                                            launch_replicates,
                                            WorkerCombination(i),
                                            WorkerReplicate(i))>>))
    /\ [][launch_counter' = launch_counter + 1 =>
             /\ heap'[base_ref] = heap[base_ref]
             /\ \A k \in DOMAIN combination_refs :
                   heap'[combination_refs[k]] = heap[combination_refs[k]]
             /\ \A i \in DOMAIN worker_parameters :
                   heap'[worker_parameters[i]] = heap[worker_parameters[i]]]_vars

\* two combinations with two replicates each have been launched
C26_Witness ==
    /\ sweep_pc = "expanded"
    /\ Len(combination_refs) = 2
    /\ launch_replicates = 2
    /\ Len(worker_parameters) = 4
    /\ heap[worker_parameters[4]]["exp_name"] =
          PyStr(<<"unnamed_run_combo002_rep02">>)
    /\ heap[combination_refs[2]]["exp_name"] = PyStr(<<"r", "u", "n">>)

\* ------------------------------------------------------- the threads
\* C22: when the cancellation is carried out (the question answered Yes),
\* every supervisor that has not emitted its terminal signal has been
\* requested to terminate its child process.
C22_CancelTerminatesChildren ==
    [][CancelQuitsThreads =>
          \A t \in Threads :
              threads[t].phase = "run" =>
                  "terminate" \in threads'[t].requests]_vars

\* C29: after a supervisor has emitted its terminal signal, finished or error,
\* its thread is asked to quit and eventually is no longer running.
C29_TerminalThreadStops ==
    \A t \in Threads :
        (threads[t].emitted # "none") ~> (threads[t].phase = "finished")

====
